---------------------------- MODULE Spec2Model ----------------------------
(***************************************************************************)
(* A model of nhl.game.Game (src/nhl/game.py): the constructor, shotData   *)
(* and makeDataFrames, over a bounded family of live-feed documents.       *)
(*                                                                         *)
(* Representation.                                                         *)
(*   - A JSON object is a TLA+ record; a key is present iff it is in the   *)
(*     record's DOMAIN, so a Python KeyError is a failed Has(d, k).        *)
(*   - A JSON list / Python list / DataFrame is a sequence (a DataFrame is *)
(*     the sequence of its rows, a row a record keyed by column name).     *)
(*   - A nullable Python value is NONE (Python None) or Some(v).           *)
(*   - An upper-case eventTypeId such as BLOCKED_SHOT is the sequence of   *)
(*     its underscore-separated words, <<"BLOCKED", "SHOT">>.              *)
(*   - A call that raises leaves its exception's name in lastCall.raised.  *)
(***************************************************************************)
EXTENDS Integers, Sequences, FiniteSets, TLC

VARIABLES
    live_data,      \* self.live_data: the feed document last fetched
    home, away,     \* self.home, self.away: triCodes
    home_id, away_id,
    home_goals, away_goals,
    final, winner, date, game_id,
    agg_stats,      \* self.agg_stats: the boxscore table
    _shotData,      \* self._shotData
    _DataFrame,     \* self._DataFrame
    shot_data, penalty_data, turnover_data, hit_data,
    called,         \* history: which methods have already returned normally
    lastCall        \* history: the last method call and its outcome

vars == <<live_data, home, away, home_id, away_id, home_goals, away_goals,
          final, winner, date, game_id, agg_stats, _shotData, _DataFrame,
          shot_data, penalty_data, turnover_data, hit_data, called, lastCall>>

(***************************************************************************)
(* Bounds of the model.                                                    *)
(***************************************************************************)
MaxPlays == 2       \* plays.allPlays holds at most this many raw events
MaxGoals == 2       \* linescore goals range over 0..MaxGoals
MaxStat == 1        \* boxscore statistics are offset by 0..MaxStat
MaxPeriod == 2      \* periods range over 1..MaxPeriod

(***************************************************************************)
(* Python values.                                                          *)
(***************************************************************************)
NONE == << >>
Some(v) == <<v>>
Has(d, k) == k \in DOMAIN d
WithKey(d, k, v) == (k :> v) @@ d

Max(S) == CHOOSE m \in S : \A n \in S : n <= m

\* -v on a numpy array: component-wise negation
Neg(v) == [i \in DOMAIN v |-> 0 - v[i]]

\* str.lower() on the words of an identifier
LowerWord ==
    [w \in {"SHOT", "MISSED", "BLOCKED", "GOAL", "HIT", "FACEOFF", "PENALTY",
            "GIVEAWAY", "TAKEAWAY", "STOP", "PERIOD", "START", "FAILED",
            "ATTEMPT"} |->
        CASE w = "SHOT" -> "shot"
          [] w = "MISSED" -> "missed"
          [] w = "BLOCKED" -> "blocked"
          [] w = "GOAL" -> "goal"
          [] w = "HIT" -> "hit"
          [] w = "FACEOFF" -> "faceoff"
          [] w = "PENALTY" -> "penalty"
          [] w = "GIVEAWAY" -> "giveaway"
          [] w = "TAKEAWAY" -> "takeaway"
          [] w = "STOP" -> "stop"
          [] w = "PERIOD" -> "period"
          [] w = "START" -> "start"
          [] w = "FAILED" -> "failed"
          [] w = "ATTEMPT" -> "attempt"]

\* s.lower() for an identifier s
Lower(s) == [i \in DOMAIN s |-> LowerWord[s[i]]]

\* s.split('_')[0].lower()
SplitFirstLower(s) == LowerWord[s[1]]

(***************************************************************************)
(* Game.__init__                                                           *)
(***************************************************************************)
\* the keys of boxscore teamSkaterStats, in the feed's order
StatKeys ==
    <<"goals", "pim", "shots", "powerPlayPercentage", "powerPlayGoals",
      "powerPlayOpportunities", "faceOffWinPercentage", "blocked",
      "takeaways", "giveaways", "hits">>

agg_cols ==
    <<"date", "team", "team_id", "opponent", "home", "win",
      "goals_for", "goals_against", "penalty_minutes_for",
      "penalty_minutes_against", "shots_for", "shots_against",
      "PPP_for", "PPP_against", "PPG_for", "PPG_against",
      "PPO_for", "PPO_against", "faceoff_win_percentage_for",
      "faceoff_win_percentage_against", "blocked_shots_for",
      "blocked_shots_against", "takeaways_for", "takeaways_against",
      "giveaways_for", "giveaways_against", "hits_for", "hits_against">>

\* pd.DataFrame row: the list vals under the column names cols
RowOf(cols, vals) ==
    [c \in {cols[i] : i \in DOMAIN cols} |->
        vals[CHOOSE i \in DOMAIN cols : cols[i] = c]]

CtorHomeGoals(doc) == doc.linescore.teams.home.goals

\* line 56 reads the home entry again
CtorAwayGoals(doc) == doc.linescore.teams.home.goals

Winner(isFinal, hg, ag, h, a) ==
    IF ~isFinal THEN NONE
    ELSE IF hg > ag THEN Some(h)
    ELSE Some(a)

\* dateTime[:10]: a dateTime is <<its first ten characters, the rest>>
DateOf(doc) == doc.plays.currentPlay.about.dateTime[1]

RECURSIVE StatPairsOwnTwice(_, _, _)
\* a mutant of StatPairs: the own value is appended as for and as against
StatPairsOwnTwice(ks, own, opp) ==
    IF ks = << >> THEN << >>
    ELSE <<own[Head(ks)], own[Head(ks)]>>
            \o StatPairsOwnTwice(Tail(ks), own, opp)

RECURSIVE StatPairs(_, _, _)
\* the for/against values appended for the keys ks, from own and opp stats
StatPairs(ks, own, opp) ==
    IF ks = << >> THEN << >>
    ELSE <<own[Head(ks)], opp[Head(ks)]>> \o StatPairs(Tail(ks), own, opp)

AggStats(doc, d, h, hid, a, aid, w) ==
    LET _stats == doc.boxscore.teams
        hs == _stats.home.teamStats.teamSkaterStats
        as == _stats.away.teamStats.teamSkaterStats
        _home == <<d, h, hid, a, TRUE, w = Some(h)>> \o StatPairs(StatKeys, hs, as)
        _away == <<d, a, aid, h, FALSE, w = Some(a)>> \o StatPairs(StatKeys, as, hs)
    IN  <<RowOf(agg_cols, _home), RowOf(agg_cols, _away)>>


(***************************************************************************)
(* Game.shotData: the loop body, per raw event.                            *)
(***************************************************************************)
shotIDs == {<<"SHOT">>, <<"MISSED", "SHOT">>, <<"BLOCKED", "SHOT">>, <<"GOAL">>}

shot_cols ==
    <<"shooter", "result", "other", "shotType", "coords", "period",
      "periodTime", "shooterTeam", "otherTeam">>

IsShot(event) == event.result.eventTypeId \in shotIDs

\* a mutant of ShotTeams: a blocked shot is treated like any other shot
ShotTeamsUnblocked(result, triCode) ==
    <<triCode, (IF home = triCode THEN away ELSE home)>>

\* lines 169-181: <<shooterTeam, otherTeam>>
ShotTeams(result, triCode) ==
    IF result = "blocked"
    THEN <<(IF home = triCode THEN away ELSE home), triCode>>
    ELSE <<triCode, (IF home = triCode THEN away ELSE home)>>

\* lines 190-193: np.array(list(event['coordinates'].values())), or None
ShotRawCoords(event) ==
    IF Has(event, "coordinates") THEN Some(event.coordinates) ELSE NONE

\* a mutant of ShotFlip: the odd periods are flipped
ShotFlipOdd(period, coords) ==
    IF period % 2 = 1 THEN Some(Neg(coords[1])) ELSE coords

\* lines 207-212: the flip of an array (a None is handled by ShotError)
ShotFlip(period, coords) ==
    IF period % 2 = 0 THEN Some(Neg(coords[1])) ELSE coords

\* lines 198-205: the name of the last entry whose playerType is in roles
LastOfRole(players, roles) ==
    LET idx == {i \in DOMAIN players : players[i].playerType \in roles}
    IN  IF idx = {} THEN NONE ELSE Some(players[Max(idx)].player.fullName)

\* the exception the loop body raises on a shot event, "" when none
ShotError(event) ==
    IF ~Has(event, "team") THEN "KeyError"
    ELSE IF ~Has(event, "players") THEN "KeyError"
    ELSE IF \E i \in DOMAIN event.players :
                \/ ~Has(event.players[i], "playerType")
                \/ /\ event.players[i].playerType \in
                          {"Shooter", "Scorer", "Goalie", "Blocker"}
                   /\ \/ ~Has(event.players[i], "player")
                      \/ ~Has(event.players[i].player, "fullName")
         THEN "KeyError"
    \* -None is a TypeError, and `except IndexError or TypeError` catches
    \* IndexError alone
    ELSE IF event.about.period % 2 = 0 /\ ShotRawCoords(event) = NONE
         THEN "TypeError"
    ELSE ""

\* the row appended for a shot event on which the body does not raise
ShotRow(event) ==
    LET result == SplitFirstLower(event.result.eventTypeId)
        teams == ShotTeams(result, event.team.triCode)
        shotType == IF Has(event.result, "secondaryType")
                    THEN Some(event.result.secondaryType) ELSE NONE
        period == event.about.period
        coords == IF ShotRawCoords(event) = NONE THEN NONE
                  ELSE ShotFlip(period, ShotRawCoords(event))
    IN  RowOf(shot_cols,
              <<LastOfRole(event.players, {"Shooter", "Scorer"}), result,
                LastOfRole(event.players, {"Goalie", "Blocker"}), shotType,
                coords, period, event.about.periodTime, teams[1], teams[2]>>)

RECURSIVE ShotLoop(_, _)
\* lines 159-217: the loop over the events still to visit, _data so far
ShotLoop(plays, _data) ==
    IF plays = << >> THEN [raised |-> "", rows |-> _data]
    ELSE IF ~IsShot(Head(plays)) THEN ShotLoop(Tail(plays), _data)
    ELSE IF ShotError(Head(plays)) # ""
         THEN [raised |-> ShotError(Head(plays)), rows |-> << >>]
    ELSE ShotLoop(Tail(plays), Append(_data, ShotRow(Head(plays))))

\* lines 155-217: [raised, rows] for the events of allPlays
ShotRows(plays) == ShotLoop(plays, << >>)

(***************************************************************************)
(* Game.makeDataFrames: the loop body, per raw play.                       *)
(***************************************************************************)
df_cols ==
    <<"event", "secondary_type", "player_one", "player_one_role",
      "player_two", "player_two_role", "coords", "period",
      "period_time_remaining", "player_one_team", "player_two_team",
      "home_team", "home_team_id", "away_team", "away_team_id",
      "home_goals", "away_goals", "game_winning", "empty_net",
      "player_one_id", "player_two_id", "game_id", "winning_team",
      "date", "description">>

weird_events ==
    {"Unknown", "Period Start", "Period End", "Game End", "Game Scheduled",
     "Period Ready", "Period Official", "Early Intermission Start",
     "Early Intermission End", "Game Official", "Shootout Complete"}

other_events ==
    {"Stoppage", "Sub", "Fight", "Emergency Goaltender", "Official Challenge"}

\* defined at lines 261-262 and read nowhere
game_events ==
    {"Faceoff", "Hit", "Giveaway", "Goal", "Shot", "Missed Shot", "Penalty",
     "Takeaway", "Blocked Shot"}

\* lines 266-270: the plays the loop passes over
Skipped(play) ==
    \/ play.result.event \in weird_events
    \/ play.result.event \in other_events

\* lines 286-289: an array, or nan
DfCoords(play) ==
    IF Has(play, "coordinates")
    THEN [kind |-> "array", v |-> play.coordinates]
    ELSE [kind |-> "nan", v |-> << >>]

\* lines 290-295: both flags, or neither
GoalFlags(play) ==
    IF Has(play.result, "emptyNet") /\ Has(play.result, "gameWinningGoal")
    THEN [empty_net |-> Some(play.result.emptyNet),
          game_winning |-> Some(play.result.gameWinningGoal)]
    ELSE [empty_net |-> NONE, game_winning |-> NONE]

NoParticipants ==
    [player_one |-> NONE, player_one_id |-> NONE, player_one_role |-> NONE,
     player_two |-> NONE, player_two_id |-> NONE, player_two_role |-> NONE]

\* a mutant of EmptyNetSkips: the empty-net test is left out
EmptyNetNeverSkips(empty_net) == FALSE

\* lines 312-313: `if empty_net: pass`, the truth value of an optional flag
EmptyNetSkips(empty_net) == empty_net = Some(TRUE)

\* int(x) of a feed id, which is an integer
IntOf(x) == x

\* lines 307-326, for a players list that is absent or not empty
Participants(play, empty_net) ==
    IF ~Has(play, "players") THEN NoParticipants
    ELSE
    LET lst == play.players
        first == lst[1]
        last == lst[Len(lst)]
    IN  IF ~(/\ Has(first, "player") /\ Has(first.player, "fullName")
             /\ Has(first.player, "id") /\ Has(first, "playerType"))
        THEN NoParticipants
        ELSE
        LET one == [NoParticipants EXCEPT
                        !.player_one = Some(first.player.fullName),
                        !.player_one_id = Some(IntOf(first.player.id)),
                        !.player_one_role = Some(first.playerType)]
        IN  IF EmptyNetSkips(empty_net) THEN one
            ELSE IF ~(Has(last, "player") /\ Has(last.player, "fullName"))
                 THEN NoParticipants
            ELSE IF last.player.fullName = first.player.fullName THEN one
            ELSE IF ~(Has(last.player, "id") /\ Has(last, "playerType"))
                 THEN NoParticipants
            ELSE [one EXCEPT
                        !.player_two = Some(last.player.fullName),
                        !.player_two_id = Some(IntOf(last.player.id)),
                        !.player_two_role = Some(last.playerType)]

\* lines 328-332: <<player_one_team, player_two_team>>
DfTeams(triCode) ==
    <<triCode, (IF home = triCode THEN away ELSE home)>>

\* the exception the loop body raises on a play it does not pass over
DfError(play) ==
    \* play['players'][0] of an empty list: only KeyError is caught
    IF Has(play, "players") /\ play.players = << >> THEN "IndexError"
    ELSE IF ~Has(play, "team") THEN "KeyError"
    ELSE ""

\* the row appended for a play on which the body does not raise
DfRow(play) ==
    LET flags == GoalFlags(play)
        secondary_type == IF Has(play.result, "secondaryType")
                          THEN Some(play.result.secondaryType) ELSE NONE
        p == Participants(play, flags.empty_net)
        teams == DfTeams(play.team.triCode)
    IN  RowOf(df_cols,
              <<Lower(play.result.eventTypeId), secondary_type,
                p.player_one, p.player_one_role, p.player_two,
                p.player_two_role, DfCoords(play), play.about.period,
                play.about.periodTimeRemaining, teams[1], teams[2],
                home, home_id, away, away_id,
                play.about.goals.home, play.about.goals.away,
                flags.game_winning, flags.empty_net,
                p.player_one_id, p.player_two_id, game_id, winner,
                date, play.result.description>>)

RECURSIVE DfLoop(_, _)
\* lines 265-343: the loop over the plays still to visit, _data so far
DfLoop(plays, _data) ==
    IF plays = << >> THEN [raised |-> "", rows |-> _data]
    ELSE IF Skipped(Head(plays)) THEN DfLoop(Tail(plays), _data)
    ELSE IF DfError(Head(plays)) # ""
         THEN [raised |-> DfError(Head(plays)), rows |-> << >>]
    ELSE DfLoop(Tail(plays), Append(_data, DfRow(Head(plays))))

\* lines 264-343: [raised, rows] for the plays of allPlays
DfRows(plays) == DfLoop(plays, << >>)

(***************************************************************************)
(* Game.makeDataFrames: the category tables, lines 347-387.                *)
(***************************************************************************)
\* df[df.event == e].copy()
FilterEvent(df, e) == SelectSeq(df, LAMBDA r : r.event = e)

RECURSIVE Concat(_)
\* pd.concat of a list of tables
Concat(tables) ==
    IF tables = << >> THEN << >> ELSE Head(tables) \o Concat(Tail(tables))

\* df.drop(cols, axis=1)
DropCols(df, cols) ==
    [i \in DOMAIN df |-> [c \in (DOMAIN df[i]) \ cols |-> df[i][c]]]

\* df.rename(columns=m)
RenameCols(df, m) ==
    LET new(k) == IF k \in DOMAIN m THEN m[k] ELSE k
    IN  [i \in DOMAIN df |->
            [c \in {new(k) : k \in DOMAIN df[i]} |->
                df[i][CHOOSE k \in DOMAIN df[i] : new(k) = c]]]

ShotTable(df) ==
    Concat([j \in 1..4 |->
        FilterEvent(df, <<<<"shot">>, <<"missed", "shot">>,
                          <<"blocked", "shot">>, <<"goal">>>>[j])])

PenaltyTable(df, relabel) ==
    LET t == DropCols(FilterEvent(df, <<"penalty">>),
                      {"empty_net", "game_winning"})
        col_relabel ==
            [secondary_type |-> "penalty", player_one |-> "penalty_on",
             player_two |-> "drew_by", player_one_team |-> "penalty_team",
             player_two_team |-> "drew_by_team",
             player_one_id |-> "penalty_on_id", player_two_id |-> "drew_by_id"]
    IN  IF relabel
        THEN DropCols(RenameCols(t, col_relabel),
                      {"player_one_role", "player_two_role"})
        ELSE t

\* the rename of line 374 names no axis, so it maps index labels: the
\* columns stay as they are
TurnoverTable(df) ==
    DropCols(Concat(<<FilterEvent(df, <<"giveaway">>),
                      FilterEvent(df, <<"takeaway">>)>>),
             {"secondary_type", "empty_net", "game_winning",
              "player_one_role", "player_two", "player_two_role",
              "player_two_id"})

HitTable(df, relabel) ==
    LET t == DropCols(FilterEvent(df, <<"hit">>),
                      {"secondary_type", "empty_net", "game_winning"})
        col_relabel ==
            [player_one |-> "hitter", player_two |-> "hittee",
             player_one_team |-> "hitter_team",
             player_two_team |-> "hittee_team",
             player_one_id |-> "hitter_id", player_two_id |-> "hittee_id"]
    IN  IF relabel
        THEN DropCols(RenameCols(t, col_relabel),
                      {"player_one_role", "player_two_role"})
        ELSE t

(***************************************************************************)
(* The feed: api.getLiveData.  A refresh returns the document of the same  *)
(* game, whose play list has grown by zero or more events of the feed's    *)
(* catalogue E.                                                            *)
(***************************************************************************)
RECURSIVE SeqsUpTo(_, _)
SeqsUpTo(E, n) ==
    IF n <= 0 THEN {<< >>}
    ELSE LET shorter == SeqsUpTo(E, n - 1)
         IN  shorter \cup {Append(s, e) : s \in shorter, e \in E}

Fetch(doc, E) ==
    {[doc EXCEPT !.plays.allPlays = @ \o s] :
        s \in SeqsUpTo(E, MaxPlays - Len(doc.plays.allPlays))}

(***************************************************************************)
(* The methods.                                                            *)
(***************************************************************************)
Call(op, updateLiveData, rebuilt, raised, ret) ==
    [op |-> op, updateLiveData |-> updateLiveData, prior |-> called[op],
     rebuilt |-> rebuilt, raised |-> raised, ret |-> ret]

Returned(op) == [called EXCEPT ![op] = TRUE]

ctor_vars ==
    <<home, away, home_id, away_id, home_goals, away_goals, final, winner,
      date, game_id, agg_stats>>

df_vars == <<_DataFrame, shot_data, penalty_data, turnover_data, hit_data>>

\* shotData(updateLiveData), where fetched is what getLiveData returns
shotData(updateLiveData, fetched) ==
    IF ~updateLiveData /\ _shotData # NONE
    THEN /\ lastCall' = Call("shotData", updateLiveData, FALSE, "", _shotData)
         /\ called' = Returned("shotData")
         /\ UNCHANGED <<live_data, _shotData>>
    ELSE \E doc \in {IF updateLiveData THEN fetched ELSE live_data} :
         \E built \in {ShotRows(doc.plays.allPlays)} :
             /\ live_data' = doc
             /\ lastCall' = Call("shotData", updateLiveData, TRUE, built.raised,
                                 IF built.raised = "" THEN Some(built.rows)
                                 ELSE NONE)
             /\ called' = IF built.raised = "" THEN Returned("shotData")
                          ELSE called
             \* line 219 returns the table and stores nothing
             /\ UNCHANGED _shotData

\* makeDataFrames(relabel, updateLiveData)
makeDataFrames(relabel, updateLiveData, fetched) ==
    IF ~updateLiveData /\ _DataFrame # NONE
    THEN /\ lastCall' = Call("makeDataFrames", updateLiveData, FALSE, "",
                             _DataFrame)
         /\ called' = Returned("makeDataFrames")
         /\ UNCHANGED <<live_data, df_vars>>
    ELSE \E doc \in {IF updateLiveData THEN fetched ELSE live_data} :
         \E built \in {DfRows(doc.plays.allPlays)} :
             /\ live_data' = doc
             /\ IF built.raised # ""
                THEN /\ lastCall' = Call("makeDataFrames", updateLiveData,
                                         TRUE, built.raised, NONE)
                     /\ UNCHANGED <<called, df_vars>>
                ELSE /\ _DataFrame' = Some(built.rows)
                     /\ shot_data' = Some(ShotTable(built.rows))
                     /\ penalty_data' = Some(PenaltyTable(built.rows, relabel))
                     /\ turnover_data' = Some(TurnoverTable(built.rows))
                     /\ hit_data' = Some(HitTable(built.rows, relabel))
                     \* line 389: return None
                     /\ lastCall' = Call("makeDataFrames", updateLiveData,
                                         TRUE, "", NONE)
                     /\ called' = Returned("makeDataFrames")

ShotData(E) ==
    /\ \E updateLiveData \in BOOLEAN :
       \E fetched \in (IF updateLiveData THEN Fetch(live_data, E)
                       ELSE {live_data}) :
           shotData(updateLiveData, fetched)
    /\ UNCHANGED <<ctor_vars, df_vars>>

MakeDataFrames(E) ==
    /\ \E relabel \in BOOLEAN, updateLiveData \in BOOLEAN :
       \E fetched \in (IF updateLiveData THEN Fetch(live_data, E)
                       ELSE {live_data}) :
           makeDataFrames(relabel, updateLiveData, fetched)
    /\ UNCHANGED <<ctor_vars, _shotData>>

\* the state Game(game_id) leaves, for a first fetch returning doc
Construct(doc) ==
    /\ game_id = "2019020001"
    /\ live_data = doc
    /\ home = doc.boxscore.teams.home.team.triCode
    /\ away = doc.boxscore.teams.away.team.triCode
    /\ home_id = doc.boxscore.teams.home.team.id
    /\ away_id = doc.boxscore.teams.away.team.id
    /\ home_goals = CtorHomeGoals(doc)
    /\ away_goals = CtorAwayGoals(doc)
    /\ final = TRUE
    /\ winner = Winner(final, home_goals, away_goals, home, away)
    /\ date = DateOf(doc)
    /\ agg_stats = AggStats(doc, date, home, home_id, away, away_id, winner)
    /\ _shotData = NONE
    /\ _DataFrame = NONE
    \* attributes that do not exist before makeDataFrames sets them
    /\ shot_data = NONE
    /\ penalty_data = NONE
    /\ turnover_data = NONE
    /\ hit_data = NONE
    /\ called = [shotData |-> FALSE, makeDataFrames |-> FALSE]
    /\ lastCall = [op |-> "__init__", updateLiveData |-> FALSE,
                   prior |-> FALSE, rebuilt |-> FALSE, raised |-> "",
                   ret |-> NONE]

(***************************************************************************)
(* Feed documents.                                                         *)
(***************************************************************************)
HomeCode == "BOS"
AwayCode == "NYR"
ThirdCode == "TOR"

StatsDict(b) ==
    [k \in {StatKeys[i] : i \in DOMAIN StatKeys} |->
        b + (CHOOSE i \in DOMAIN StatKeys : StatKeys[i] = k)]

Doc(hg, ag, hb, ab, plays) ==
    [boxscore |-> [teams |->
        [home |-> [team |-> [triCode |-> HomeCode, id |-> 6],
                   teamStats |-> [teamSkaterStats |-> StatsDict(hb)]],
         away |-> [team |-> [triCode |-> AwayCode, id |-> 3],
                   teamStats |-> [teamSkaterStats |-> StatsDict(ab + 20)]]]],
     linescore |-> [teams |-> [home |-> [goals |-> hg],
                               away |-> [goals |-> ag]]],
     plays |-> [currentPlay |->
                    [about |-> [dateTime |-> <<"2019-10-02", "T23:00:00Z">>]],
                allPlays |-> plays]]

\* a raw play of type t = <<event, eventTypeId>> with the keys every play has
Play(t, period) ==
    [result |-> [event |-> t[1], eventTypeId |-> t[2],
                 description |-> "text"],
     about |-> [period |-> period, periodTime |-> "05:00",
                periodTimeRemaining |-> "15:00",
                goals |-> [home |-> 1, away |-> 0]]]

OnTeam(play, code) == WithKey(play, "team", [triCode |-> code])
WithPlayers(play, players) == WithKey(play, "players", players)
WithCoords(play, xy) == WithKey(play, "coordinates", xy)
WithResult(play, k, v) == [play EXCEPT !.result = WithKey(@, k, v)]

Entry(role, name, id) ==
    [playerType |-> role, player |-> [fullName |-> name, id |-> id]]

T_PeriodStart == <<"Period Start", <<"PERIOD", "START">>>>
T_Stoppage == <<"Stoppage", <<"STOP">>>>
T_FailedShot == <<"Failed Shot Attempt", <<"FAILED", "SHOT", "ATTEMPT">>>>
T_Faceoff == <<"Faceoff", <<"FACEOFF">>>>
T_Hit == <<"Hit", <<"HIT">>>>
T_Giveaway == <<"Giveaway", <<"GIVEAWAY">>>>
T_Takeaway == <<"Takeaway", <<"TAKEAWAY">>>>
T_Penalty == <<"Penalty", <<"PENALTY">>>>
T_Shot == <<"Shot", <<"SHOT">>>>
T_MissedShot == <<"Missed Shot", <<"MISSED", "SHOT">>>>
T_BlockedShot == <<"Blocked Shot", <<"BLOCKED", "SHOT">>>>
T_Goal == <<"Goal", <<"GOAL">>>>

\* a well-formed play of a game event: team, two participants, coordinates
FullPlay(t, code, period, roles) ==
    WithCoords(
        WithPlayers(OnTeam(Play(t, period), code),
                    <<Entry(roles[1], "A", 11), Entry(roles[2], "B", 22)>>),
        <<3, -2>>)

\* the catalogue of the main specification: one play of each table's kind
MainEvents ==
    {Play(T_PeriodStart, 1),
     FullPlay(T_Shot, HomeCode, 2, <<"Shooter", "Goalie">>),
     FullPlay(T_Hit, AwayCode, 1, <<"Hitter", "Hittee">>),
     FullPlay(T_Penalty, HomeCode, 1, <<"PenaltyOn", "DrewBy">>),
     FullPlay(T_Giveaway, AwayCode, 2, <<"PlayerID", "PlayerID">>),
     FullPlay(T_Takeaway, HomeCode, 2, <<"PlayerID", "PlayerID">>)}

DocsOver(E) == {Doc(1, 0, 0, 0, plays) : plays \in SeqsUpTo(E, MaxPlays)}

Init == \E doc \in DocsOver(MainEvents) : Construct(doc)

Next == ShotData(MainEvents) \/ MakeDataFrames(MainEvents)

Spec == Init /\ [][Next]_vars

(***************************************************************************)
(* The constructor's specification: every linescore and boxscore of the    *)
(* bounds, over a catalogue of one play.                                   *)
(***************************************************************************)
CtorEvents == {FullPlay(T_Goal, HomeCode, 1, <<"Scorer", "Goalie">>)}

CtorDocs ==
    {Doc(hg, ag, hb, ab, plays) :
        hg \in 0..MaxGoals, ag \in 0..MaxGoals,
        hb \in 0..MaxStat, ab \in 0..MaxStat,
        plays \in SeqsUpTo(CtorEvents, MaxPlays)}

InitCtor == \E doc \in CtorDocs : Construct(doc)

NextCtor == ShotData(CtorEvents) \/ MakeDataFrames(CtorEvents)

SpecCtor == InitCtor /\ [][NextCtor]_vars

(***************************************************************************)
(* The classification specification: plays of the ignorable, the reserved  *)
(* and the game-event sets and of none of them, with and without a team,   *)
(* on the home, the away and a third team.                                 *)
(***************************************************************************)
ClassifyEvents ==
    {Play(T_PeriodStart, 1),
     Play(T_Stoppage, 1),
     Play(T_FailedShot, 1),
     FullPlay(T_FailedShot, HomeCode, 1, <<"Shooter", "Goalie">>),
     FullPlay(T_Faceoff, HomeCode, 1, <<"Winner", "Loser">>),
     FullPlay(T_Faceoff, AwayCode, 2, <<"Winner", "Loser">>),
     FullPlay(T_Hit, AwayCode, 2, <<"Hitter", "Hittee">>),
     FullPlay(T_Hit, ThirdCode, 2, <<"Hitter", "Hittee">>)}

InitClassify == \E doc \in DocsOver(ClassifyEvents) : Construct(doc)

NextClassify == ShotData(ClassifyEvents) \/ MakeDataFrames(ClassifyEvents)

SpecClassify == InitClassify /\ [][NextClassify]_vars

(***************************************************************************)
(* The participant specification: goals of the home team whose participant *)
(* list and goal flags vary.                                               *)
(***************************************************************************)
GoalPlay == WithCoords(OnTeam(Play(T_Goal, 1), HomeCode), <<3, -2>>)

WithFlags(play, emptyNet, gameWinningGoal) ==
    WithResult(WithResult(play, "emptyNet", emptyNet),
               "gameWinningGoal", gameWinningGoal)

P_One == <<Entry("Scorer", "A", 11)>>
P_Two == <<Entry("Scorer", "A", 11), Entry("Goalie", "B", 22)>>
P_Three ==
    <<Entry("Scorer", "A", 11), Entry("Assist", "C", 33),
      Entry("Goalie", "B", 22)>>
\* two people of one name
P_Namesake == <<Entry("Scorer", "A", 11), Entry("Goalie", "A", 12)>>
\* a last entry without an id
P_NoId ==
    <<Entry("Scorer", "A", 11),
      [playerType |-> "Goalie", player |-> [fullName |-> "B"]]>>

\* a first entry without a role
P_NoRole ==
    <<[player |-> [fullName |-> "A", id |-> 11]], Entry("Goalie", "B", 22)>>

PlayerEvents ==
    {WithPlayers(GoalPlay, ps) : ps \in {P_One, P_Two, P_Three, P_Namesake}}
    \cup {WithFlags(WithPlayers(GoalPlay, ps), TRUE, FALSE) :
            ps \in {P_One, P_Two, P_Three}}
    \cup {WithFlags(WithPlayers(GoalPlay, ps), FALSE, TRUE) :
            ps \in {P_Two, P_Namesake}}
    \cup {GoalPlay, WithPlayers(GoalPlay, << >>), WithPlayers(GoalPlay, P_NoId),
          WithPlayers(GoalPlay, P_NoRole)}

InitPlayers == \E doc \in DocsOver(PlayerEvents) : Construct(doc)

NextPlayers == ShotData(PlayerEvents) \/ MakeDataFrames(PlayerEvents)

SpecPlayers == InitPlayers /\ [][NextPlayers]_vars

(***************************************************************************)
(* The shot specification: shots of every kind, in every period of the     *)
(* bound, by either team and by a third, with and without coordinates.     *)
(***************************************************************************)
ShotEvents ==
    {FullPlay(T_Shot, HomeCode, n, <<"Shooter", "Goalie">>) : n \in 1..MaxPeriod}
    \cup {FullPlay(T_BlockedShot, AwayCode, n, <<"Shooter", "Blocker">>) :
            n \in 1..MaxPeriod}
    \cup {FullPlay(T_BlockedShot, HomeCode, 2, <<"Shooter", "Blocker">>),
          FullPlay(T_Goal, AwayCode, 1, <<"Scorer", "Goalie">>),
          FullPlay(T_Shot, ThirdCode, 2, <<"Shooter", "Goalie">>),
          FullPlay(T_Hit, HomeCode, 2, <<"Hitter", "Hittee">>),
          WithPlayers(OnTeam(Play(T_MissedShot, 2), HomeCode), P_Two),
          WithPlayers(OnTeam(Play(T_MissedShot, 1), AwayCode), P_Two)}

InitShots == \E doc \in DocsOver(ShotEvents) : Construct(doc)

NextShots == ShotData(ShotEvents) \/ MakeDataFrames(ShotEvents)

SpecShots == InitShots /\ [][NextShots]_vars

(***************************************************************************)
(* Claims.                                                                 *)
(***************************************************************************)
IsCall(op) == lastCall.op = op

\* the last call was a makeDataFrames that built its table from live_data
BuiltDf ==
    IsCall("makeDataFrames") /\ lastCall.rebuilt /\ lastCall.raised = ""

\* the last call was a shotData that returned a table built from live_data
BuiltShots == IsCall("shotData") /\ lastCall.rebuilt /\ lastCall.raised = ""

\* C1: once a method has returned, a later call of it with
\* updateLiveData=False does not walk live_data and build rows again; only a
\* call with updateLiveData=True recomputes.  Stated for both methods, as
\* the claim has it: shotData breaks it.
C1_Memoized ==
    (/\ lastCall.op \in {"shotData", "makeDataFrames"}
     /\ lastCall.prior
     /\ ~lastCall.updateLiveData)
        => ~lastCall.rebuilt

\* C2: two calls of the same method in a row, both with
\* updateLiveData=False and neither raising: the second returns what the
\* first returned and leaves the category tables as the first left them.
\* makeDataFrames breaks it: None first, the table second.
C2_Idempotent ==
    [][(/\ lastCall.op \in {"shotData", "makeDataFrames"}
        /\ lastCall'.op = lastCall.op
        /\ ~lastCall.updateLiveData /\ ~lastCall'.updateLiveData
        /\ lastCall.raised = "" /\ lastCall'.raised = "")
       => (/\ lastCall'.ret = lastCall.ret
           /\ shot_data' = shot_data
           /\ penalty_data' = penalty_data
           /\ turnover_data' = turnover_data
           /\ hit_data' = hit_data)]_vars

\* C5: the winner is the home team when the linescore has home goals >=
\* away goals and the away team otherwise, and the win flags of the two
\* boxscore rows follow it.  The constructor breaks it.
C5_HomeWinsUnlessBehind ==
    LET hg == live_data.linescore.teams.home.goals
        ag == live_data.linescore.teams.away.goals
    IN  /\ winner = Some(IF hg >= ag THEN home ELSE away)
        /\ agg_stats[1].win = (hg >= ag)
        /\ agg_stats[2].win = (hg < ag)

\* the column pairs <<S_for, S_against>> of the boxscore table
ForAgainst == {<<agg_cols[5 + 2 * k], agg_cols[6 + 2 * k]>> : k \in 1..11}

C6_TwoSymmetricRows ==
    /\ Len(agg_stats) = 2
    /\ agg_stats[1].home = TRUE /\ agg_stats[1].team = home
    /\ agg_stats[2].home = FALSE /\ agg_stats[2].team = away
    /\ \A fa \in ForAgainst :
        /\ agg_stats[1][fa[1]] = agg_stats[2][fa[2]]
        /\ agg_stats[2][fa[1]] = agg_stats[1][fa[2]]

\* C6: agg_stats has two rows, home then away, each statistic's _for of one
\* row is the _against of the other, and no call of shotData or
\* makeDataFrames changes the table.
C6_Boxscore == []C6_TwoSymmetricRows /\ [][agg_stats' = agg_stats]_vars

\* C6 witness: a refreshing makeDataFrames has run on a game whose teams'
\* statistics differ.
C6_Witness ==
    /\ IsCall("makeDataFrames") /\ lastCall.updateLiveData
    /\ Len(live_data.plays.allPlays) = MaxPlays
    /\ agg_stats[1].hits_for # agg_stats[1].hits_against

Plays == live_data.plays.allPlays

\* the plays whose type is in the set S
PlaysOfType(S) == SelectSeq(Plays, LAMBDA p : p.result.event \in S)

\* the plays that are neither ignorable nor reserved
RowPlays ==
    SelectSeq(Plays, LAMBDA p : p.result.event \notin weird_events \cup other_events)

\* the shot-family plays
ShotPlays == SelectSeq(Plays, LAMBDA p : p.result.eventTypeId \in shotIDs)

\* C3: the event table has no row for a play of the ignorable or the
\* reserved set, and its rows are exactly the plays of the game-event set,
\* in the order of the document.  A play of none of the three sets breaks
\* it (see C4).
C3_RowsAreGameEvents ==
    BuiltDf =>
        LET kept == PlaysOfType(game_events)
            dropped == PlaysOfType(weird_events \cup other_events)
            rows == _DataFrame[1]
        IN  /\ Len(rows) = Len(kept)
            /\ \A i \in DOMAIN rows :
                /\ rows[i].event = Lower(kept[i].result.eventTypeId)
                /\ rows[i].description = kept[i].result.description
            /\ \A i \in DOMAIN rows, j \in DOMAIN dropped :
                rows[i].event # Lower(dropped[j].result.eventTypeId)

\* C4: a play whose type is in none of the three sets is ignorable: the
\* call ends as it would on the document without such plays, raising
\* nothing more and building no more rows.  The loop breaks it.
C4_UnknownTypeIgnored ==
    (IsCall("makeDataFrames") /\ lastCall.rebuilt) =>
        LET known == PlaysOfType(weird_events \cup other_events \cup game_events)
            expected == DfRows(known)
        IN  /\ lastCall.raised = expected.raised
            /\ lastCall.raised = "" => _DataFrame = Some(expected.rows)

\* C10: every row of the event table carries the home and the away code as
\* its two teams, and a play of a third team makes the call raise.  The
\* loop breaks it.
C10_TeamsAreTheTwo ==
    (IsCall("makeDataFrames") /\ lastCall.rebuilt) =>
        /\ lastCall.raised = "" =>
            \A i \in DOMAIN _DataFrame[1] :
                {_DataFrame[1][i].player_one_team,
                 _DataFrame[1][i].player_two_team} = {home, away}
        /\ (\E i \in DOMAIN RowPlays :
                /\ Has(RowPlays[i], "team")
                /\ RowPlays[i].team.triCode \notin {home, away})
            => lastCall.raised # ""

\* C7: a shot-table row of a play with coordinates carries their negation
\* when the period is even and the coordinates themselves when it is odd;
\* an event-table row carries the coordinates themselves in every period.
C7_FlipOnEvenPeriods ==
    /\ BuiltShots =>
        LET rows == lastCall.ret[1]
        IN  /\ Len(rows) = Len(ShotPlays)
            /\ \A i \in DOMAIN rows :
                Has(ShotPlays[i], "coordinates") =>
                    rows[i].coords =
                        Some(IF ShotPlays[i].about.period % 2 = 0
                             THEN Neg(ShotPlays[i].coordinates)
                             ELSE ShotPlays[i].coordinates)
    /\ BuiltDf =>
        LET rows == _DataFrame[1]
        IN  /\ Len(rows) = Len(RowPlays)
            /\ \A i \in DOMAIN rows :
                Has(RowPlays[i], "coordinates") =>
                    rows[i].coords =
                        [kind |-> "array", v |-> RowPlays[i].coordinates]

\* C7 witness: shotData has returned a table holding a row of an even and
\* a row of an odd period, both of plays with coordinates other than (0, 0).
C7_Witness ==
    /\ BuiltShots
    /\ \E i, j \in DOMAIN ShotPlays :
        /\ ShotPlays[i].about.period % 2 = 0
        /\ ShotPlays[j].about.period % 2 = 1
        /\ Has(ShotPlays[i], "coordinates") /\ Has(ShotPlays[j], "coordinates")
        /\ Neg(ShotPlays[i].coordinates) # ShotPlays[i].coordinates
        /\ lastCall.ret[1][i].coords # lastCall.ret[1][j].coords

\* the other of the game's two teams
OtherTeam(code) == IF code = home THEN away ELSE home

\* C8: a blocked shot's team is its row's otherTeam and every other shot's
\* team is its row's shooterTeam; when that team is one of the game's two,
\* the row's other team field is the game's other team, so that the two
\* fields differ and are the home and the away code.
C8_BlockedShotSwapsTeams ==
    BuiltShots =>
        LET rows == lastCall.ret[1]
        IN  /\ Len(rows) = Len(ShotPlays)
            /\ \A i \in DOMAIN rows :
                LET code == ShotPlays[i].team.triCode
                    blocked == ShotPlays[i].result.event = "Blocked Shot"
                IN  /\ blocked => rows[i].otherTeam = code
                    /\ ~blocked => rows[i].shooterTeam = code
                    /\ code \in {home, away} =>
                        /\ blocked => rows[i].shooterTeam = OtherTeam(code)
                        /\ ~blocked => rows[i].otherTeam = OtherTeam(code)
                        /\ rows[i].shooterTeam # rows[i].otherTeam
                        /\ {rows[i].shooterTeam, rows[i].otherTeam}
                                = {home, away}

\* C8 witness: shotData has returned a table with the row of a shot blocked
\* by the home team and the row of a shot of another kind.
C8_Witness ==
    /\ BuiltShots
    /\ \E i, j \in DOMAIN ShotPlays :
        /\ ShotPlays[i].result.event = "Blocked Shot"
        /\ ShotPlays[i].team.triCode = home
        /\ lastCall.ret[1][i].shooterTeam = away
        /\ ShotPlays[j].result.event # "Blocked Shot"
        /\ ShotPlays[j].team.triCode = away
        /\ lastCall.ret[1][j].shooterTeam = away

\* a play whose participant list is there, is not empty and has every entry
\* carrying a name, an id and a role
CompletePlayers(play) ==
    /\ Has(play, "players")
    /\ play.players # << >>
    /\ \A i \in DOMAIN play.players :
        /\ Has(play.players[i], "playerType")
        /\ Has(play.players[i], "player")
        /\ Has(play.players[i].player, "fullName")
        /\ Has(play.players[i].player, "id")

\* the play is flagged empty-net
IsEmptyNet(play) == Has(play.result, "emptyNet") /\ play.result.emptyNet = TRUE

ShotPlayReadable(play) ==
    /\ Has(play, "team")
    /\ Has(play, "players")
    /\ \A i \in DOMAIN play.players :
        /\ Has(play.players[i], "playerType")
        /\ Has(play.players[i], "player")
        /\ Has(play.players[i].player, "fullName")

\* C11: a shotData call that builds its table from shot plays which lack
\* nothing but, possibly, their coordinates raises no exception and returns
\* one row per shot play, in order; the row of a shot play without
\* coordinates has its coords absent, in even periods as in odd ones.
C11_MissingCoordsSwallowed ==
    (/\ IsCall("shotData") /\ lastCall.rebuilt
     /\ \A i \in DOMAIN ShotPlays : ShotPlayReadable(ShotPlays[i]))
    => /\ lastCall.raised = ""
       /\ lastCall.ret # NONE
       /\ Len(lastCall.ret[1]) = Len(ShotPlays)
       /\ \A i \in DOMAIN ShotPlays :
            /\ lastCall.ret[1][i].result =
                    SplitFirstLower(ShotPlays[i].result.eventTypeId)
            /\ ~Has(ShotPlays[i], "coordinates")
                => lastCall.ret[1][i].coords = NONE

\* the entry carries a name, an id and a role
CompleteEntry(e) ==
    /\ Has(e, "playerType")
    /\ Has(e, "player")
    /\ Has(e.player, "fullName")
    /\ Has(e.player, "id")

\* a participant lookup of the play fails: the players key is missing, the
\* list is empty, the first entry lacks a name, an id or a role, or the last
\* entry, where it is read (the play is not empty-net), lacks its name or,
\* being of another name than the first, its id or its role
LookupFails(play) ==
    \/ ~Has(play, "players")
    \/ play.players = << >>
    \/ ~CompleteEntry(play.players[1])
    \/ /\ ~IsEmptyNet(play)
       /\ LET last == play.players[Len(play.players)]
          IN  \/ ~Has(last, "player")
              \/ ~Has(last.player, "fullName")
              \/ /\ last.player.fullName # play.players[1].player.fullName
                 /\ ~CompleteEntry(last)

\* C12: a makeDataFrames call that builds its table from plays which all
\* carry a team raises no exception and stores one row per retained play,
\* in order; the row of a play with a failing participant lookup has the
\* name, id and role of both participants absent.
C12_LookupFailureDegrades ==
    (/\ IsCall("makeDataFrames") /\ lastCall.rebuilt
     /\ \A i \in DOMAIN RowPlays : Has(RowPlays[i], "team"))
    => /\ lastCall.raised = ""
       /\ _DataFrame # NONE
       /\ Len(_DataFrame[1]) = Len(RowPlays)
       /\ \A i \in DOMAIN RowPlays :
            /\ _DataFrame[1][i].description = RowPlays[i].result.description
            /\ LookupFails(RowPlays[i])
                => LET r == _DataFrame[1][i]
                   IN  /\ r.player_one = NONE
                       /\ r.player_one_id = NONE
                       /\ r.player_one_role = NONE
                       /\ r.player_two = NONE
                       /\ r.player_two_id = NONE
                       /\ r.player_two_role = NONE

=============================================================================
